---- MODULE Spec2Model ----
(***************************************************************************)
(* Model of the two SAM2 video-segmentation endpoints:                     *)
(*   src/segmentation/modal_sam2.py   SAM2Model.segment / segment_chunk    *)
(*   src/segmentation/runpod_sam2.py  segment_video                        *)
(* One request is followed from its arrival to its response or to the      *)
(* exception that leaves the handler.  A frame is its zero-based position  *)
(* in the extracted sequence plus one; a mask image is the id of the frame *)
(* it was tracked from, or BLACK when no mask was propagated for it.       *)
(***************************************************************************)
EXTENDS Integers, Sequences, FiniteSets, TLC

\* ---------------------------------------------------------------- bounds
MaxFrames == 9          \* largest number of frames a decoded video has
MaxChunkLen == 3        \* largest chunk handed to the stand-alone worker
MaxYields == 3          \* longest stream the tracker yields there

\* ------------------------------------------------------ program constants
MAX_PARALLEL_CHUNKS == 8
STDERR_TAIL == 500
BLACK == 0

Variants == {"modal", "runpod"}
\* the request body: key absent, key with "", plain base64, data-URL prefixed
Payloads == {"missing", "empty", "plain", "dataurl"}
\* what the uploaded bytes are: a container with a video stream, a container
\* without one (audio only), or bytes ffmpeg cannot read
Containers == {"video", "novideo", "corrupt"}
\* lengths of the encoder's stderr
StderrLens == {0, 120, 777}

\* ---------------------------------------------------------------- helpers
Min(a, b) == IF a < b THEN a ELSE b

\* math.ceil(a / b) for positive integers
CeilDivFloor(a, b) == a \div b
CeilDiv(a, b) == (a + b - 1) \div b

\* data.get("video_base64", "")
GetVideoB64(p) == IF p = "missing" THEN "empty" ELSE p

\* `not video_b64`
NoVideoNever(v) == FALSE
NoVideo(v) == v = "empty"

\* all_frame_bytes[i:i + frames_per_chunk], i zero-based, clipped like a slice
SliceShort(s, i, n) == SubSeq(s, i + 1, Min(i + n, Len(s)) - 1)
Slice(s, i, n) == SubSeq(s, i + 1, Min(i + n, Len(s)))

\* num_chunks = min(MAX_PARALLEL_CHUNKS, num_frames)
NumChunksUncapped(n) == n
NumChunks(n) == Min(MAX_PARALLEL_CHUNKS, n)

\* frames_per_chunk = math.ceil(num_frames / num_chunks)
FramesPerChunk(n) == CeilDiv(n, NumChunks(n))

\* for i in range(0, num_frames, frames_per_chunk): chunks.append(...)
RECURSIVE ChunksFrom(_, _, _)
ChunksFrom(s, i, step) ==
    IF i >= Len(s) THEN <<>>
    ELSE <<Slice(s, i, step)>> \o ChunksFrom(s, i + step, step)

Partition(s) == ChunksFrom(s, 0, FramesPerChunk(Len(s)))

\* len(chunks) == 1
IsSingleChunkLoose(cs) == Len(cs) <= 2
IsSingleChunk(cs) == Len(cs) = 1

\* video_segments[out_frame_idx] = {...}: the mask tracked from the file
\* written at that index, frame_jpegs[out_frame_idx]
RecordYield(vs, idx, frame_jpegs) ==
    [k \in (DOMAIN vs) \cup {idx} |-> IF k = idx THEN frame_jpegs[idx + 1] ELSE vs[k]]

RECURSIVE Propagate(_, _, _)
Propagate(vs, yields, frame_jpegs) ==
    IF yields = <<>> THEN vs
    ELSE Propagate(RecordYield(vs, Head(yields), frame_jpegs), Tail(yields), frame_jpegs)

\* for frame_idx in range(len(frame_jpegs)): zeros, then paint if tracked
RECURSIVE RenderTracked(_, _, _)
RenderTracked(n, vs, j) ==
    IF j >= n THEN <<>>
    ELSE (IF j \in DOMAIN vs THEN <<vs[j]>> ELSE <<>>) \o RenderTracked(n, vs, j + 1)
RenderOnlyTracked(n, vs) == RenderTracked(n, vs, 0)
RenderMasks(n, vs) ==
    [j \in 1..n |-> IF (j - 1) \in DOMAIN vs THEN vs[j - 1] ELSE BLACK]

NoSegments == [k \in {} |-> 0]

\* segment_chunk(frame_jpegs, width, height) for a given tracker stream
segment_chunk(frame_jpegs, yields) ==
    RenderMasks(Len(frame_jpegs), Propagate(NoSegments, yields, frame_jpegs))

\* the streams the tracker may yield for n frames: any subset of the local
\* indices, in increasing or in decreasing order
RECURSIVE Ascending(_, _)
Ascending(S, n) ==
    IF n = 0 THEN <<>>
    ELSE Ascending(S, n - 1) \o (IF (n - 1) \in S THEN <<n - 1>> ELSE <<>>)
Reverse(s) == [k \in 1..Len(s) |-> s[Len(s) + 1 - k]]
YieldStreams(n) ==
    {Ascending(S, n) : S \in SUBSET (0..(n - 1))}
        \cup {Reverse(Ascending(S, n)) : S \in SUBSET (0..(n - 1))}

\* all_mask_pngs.extend(chunk_masks) for chunk_masks in chunk_results
RECURSIVE Flatten(_)
Flatten(ss) == IF ss = <<>> THEN <<>> ELSE Head(ss) \o Flatten(Tail(ss))

\* result.stderr[-500:]
Tail500(len) == Min(len, STDERR_TAIL)

\* the outputs .map() can hand to list() next: input order
MapReadyAny(status, mapOrder) ==
    {i \in DOMAIN status : status[i] # "pending" /\ \A k \in DOMAIN mapOrder : mapOrder[k] # i}
MapReady(status, mapOrder) ==
    {i \in DOMAIN status : i = Len(mapOrder) + 1 /\ status[i] # "pending"}

NotRaised == [exc |-> "", tail |-> 0]
NoResponse == [keys |-> {}, error |-> "", tail |-> 0, num_frames |-> 0, chunks |-> 0]
ErrorResponse(msg, t) ==
    [keys |-> {"error"}, error |-> msg, tail |-> t, num_frames |-> 0, chunks |-> 0]

\* ------------------------------------------------------------------ state
VARIABLES
    variant,          \* which endpoint serves the request
    payload,          \* the request's video_base64 entry
    container,        \* what the uploaded bytes decode as
    srcFrames,        \* number of frames the container decodes to
    pc,               \* position of the handler
    video_b64,        \* local video_b64
    tmpDirs,          \* tempfile.mkdtemp() calls made by the handler
    probeRuns,        \* ffmpeg.probe calls
    extractRuns,      \* frame-extraction ffmpeg runs
    frames,           \* all_frame_bytes / frame_names
    chunks,           \* chunks
    partitions,       \* times the chunk list was built
    invocations,      \* per chunk: Worker invocations issued for it
    status,           \* per chunk submitted to .map(): pending, done, failed
    outputs,          \* per chunk submitted to .map(): the masks it returned
    mapOrder,         \* chunk indices in the order .map() handed them over
    outOfOrder,       \* a pooled invocation finished before an earlier chunk's
    workerFailures,   \* chunks whose Worker raised
    localCalls,       \* segment_chunk.local calls
    mapCalls,         \* segment_chunk.map calls
    all_mask_pngs,    \* all_mask_pngs
    video_segments,   \* runpod: video_segments
    maskFiles,        \* masks/%05d.png in index order
    encodeRuns,       \* encoder runs
    encodeFailed,     \* the encoder exited non-zero
    predictorCached,  \* the worker process holds a loaded predictor
    modelLoads,       \* from_pretrained calls made by the handler
    response,         \* the dict the handler returned
    raised,           \* the exception that left the handler
    w_pc,             \* stand-alone worker: position
    w_frames,         \* stand-alone worker: frame_jpegs
    w_stream,         \* stand-alone worker: what the tracker yields in all
    w_todo,           \* stand-alone worker: what it has yet to yield
    w_segments,       \* stand-alone worker: video_segments
    w_out             \* stand-alone worker: mask_pngs

reqVars == <<variant, payload, container, srcFrames, pc, video_b64, tmpDirs,
             probeRuns, extractRuns, frames, chunks, partitions, invocations,
             status, outputs, mapOrder, outOfOrder, workerFailures, localCalls,
             mapCalls, all_mask_pngs, video_segments, maskFiles, encodeRuns, encodeFailed,
             predictorCached, modelLoads, response, raised>>
workerVars == <<w_pc, w_frames, w_stream, w_todo, w_segments, w_out>>
vars == <<reqVars, workerVars>>

\* the stand-alone worker at rest
WorkerIdle ==
    /\ w_pc = "idle"
    /\ w_frames = <<>>
    /\ w_stream = <<>>
    /\ w_todo = <<>>
    /\ w_segments = NoSegments
    /\ w_out = <<>>

\* no request in progress
RequestIdle ==
    /\ variant = "modal"
    /\ payload = "missing"
    /\ container = "corrupt"
    /\ srcFrames = 0
    /\ pc = "idle"
    /\ video_b64 = "empty"
    /\ tmpDirs = 0
    /\ probeRuns = 0
    /\ extractRuns = 0
    /\ frames = <<>>
    /\ chunks = <<>>
    /\ partitions = 0
    /\ invocations = <<>>
    /\ status = <<>>
    /\ outputs = <<>>
    /\ mapOrder = <<>>
    /\ outOfOrder = FALSE
    /\ workerFailures = {}
    /\ localCalls = 0
    /\ mapCalls = 0
    /\ all_mask_pngs = <<>>
    /\ video_segments = NoSegments
    /\ maskFiles = <<>>
    /\ encodeRuns = 0
    /\ encodeFailed = FALSE
    /\ predictorCached = TRUE
    /\ modelLoads = 0
    /\ response = NoResponse
    /\ raised = NotRaised

\* A request arrives.  The modal container has run load_model on entry; a
\* runpod worker may or may not hold a predictor from an earlier request.
Init ==
    /\ variant \in Variants
    /\ payload \in Payloads
    /\ container \in Containers
    /\ srcFrames \in 0..MaxFrames
    /\ container # "video" => srcFrames = 0
    /\ pc = "recv"
    /\ video_b64 = "empty"
    /\ tmpDirs = 0
    /\ probeRuns = 0
    /\ extractRuns = 0
    /\ frames = <<>>
    /\ chunks = <<>>
    /\ partitions = 0
    /\ invocations = <<>>
    /\ status = <<>>
    /\ outputs = <<>>
    /\ mapOrder = <<>>
    /\ outOfOrder = FALSE
    /\ workerFailures = {}
    /\ localCalls = 0
    /\ mapCalls = 0
    /\ all_mask_pngs = <<>>
    /\ video_segments = NoSegments
    /\ maskFiles = <<>>
    /\ encodeRuns = 0
    /\ encodeFailed = FALSE
    /\ predictorCached \in BOOLEAN
    /\ variant = "modal" => predictorCached
    /\ modelLoads = 0
    /\ response = NoResponse
    /\ raised = NotRaised
    /\ WorkerIdle

Return(r) == pc' = "done" /\ response' = r /\ raised' = NotRaised
Raise(e, t) == pc' = "raised" /\ raised' = [exc |-> e, tail |-> t] /\ response' = NoResponse

\* video_b64 = data.get("video_base64", ""); if not video_b64: return error
Recv ==
    /\ pc = "recv"
    /\ video_b64' = GetVideoB64(payload)
    /\ IF NoVideo(GetVideoB64(payload))
       THEN Return(ErrorResponse("No video_base64 provided", 0))
       ELSE pc' = "decode" /\ UNCHANGED <<response, raised>>
    /\ UNCHANGED <<variant, payload, container, srcFrames, tmpDirs, probeRuns,
                   extractRuns, frames, chunks, partitions, invocations, status,
                   outputs, mapOrder, outOfOrder, workerFailures, localCalls,
                   mapCalls, all_mask_pngs, video_segments, maskFiles, encodeRuns,
                   encodeFailed, predictorCached, modelLoads>>
    /\ UNCHANGED workerVars

\* strip the data-URL prefix, b64decode, mkdtemp, write input.mp4
Decode ==
    /\ pc = "decode"
    /\ video_b64' = "plain"
    /\ tmpDirs' = tmpDirs + 1
    /\ pc' = IF variant = "modal" THEN "probe" ELSE "extract"
    /\ UNCHANGED <<variant, payload, container, srcFrames, probeRuns,
                   extractRuns, frames, chunks, partitions, invocations, status,
                   outputs, mapOrder, outOfOrder, workerFailures, localCalls,
                   mapCalls, all_mask_pngs, video_segments, maskFiles, encodeRuns,
                   encodeFailed, predictorCached, modelLoads, response, raised>>
    /\ UNCHANGED workerVars

inputVars == <<variant, payload, container, srcFrames>>
dispatchVars == <<invocations, status, outputs, mapOrder, outOfOrder, workerFailures,
                  localCalls, mapCalls>>
modelVars == <<predictorCached, modelLoads>>

OkResponseModal ==
    [keys |-> {"mask_video_base64", "num_frames", "fps", "original_fps",
               "chunks", "processing_time"},
     error |-> "", tail |-> 0, num_frames |-> Len(frames), chunks |-> Len(chunks)]
OkResponseRunpod ==
    [keys |-> {"mask_video_base64", "num_frames", "fps"},
     error |-> "", tail |-> 0, num_frames |-> Len(frames), chunks |-> 0]

\* modal: probe = ffmpeg.probe(...); video_stream = next(s for s in ... )
Probe ==
    /\ pc = "probe"
    /\ probeRuns' = probeRuns + 1
    /\ CASE container = "corrupt" -> Raise("ffmpeg.Error", 0)
         [] container = "novideo" -> Raise("StopIteration", 0)
         [] OTHER -> pc' = "extract" /\ UNCHANGED <<response, raised>>
    /\ UNCHANGED <<inputVars, video_b64, tmpDirs, extractRuns, frames, chunks,
                   partitions, dispatchVars, all_mask_pngs, video_segments,
                   maskFiles, encodeRuns, encodeFailed, modelVars>>
    /\ UNCHANGED workerVars

\* modal: extract every frame, list them sorted, return an error on none
ModalExtract ==
    /\ pc = "extract" /\ variant = "modal"
    /\ extractRuns' = extractRuns + 1
    /\ frames' = [i \in 1..srcFrames |-> i]
    /\ IF srcFrames = 0
       THEN Return(ErrorResponse("No frames extracted from video", 0))
       ELSE pc' = "partition" /\ UNCHANGED <<response, raised>>
    /\ UNCHANGED <<inputVars, video_b64, tmpDirs, probeRuns, chunks, partitions,
                   dispatchVars, all_mask_pngs, video_segments, maskFiles,
                   encodeRuns, encodeFailed, modelVars>>
    /\ UNCHANGED workerVars

\* modal: split into chunks
PartitionFrames ==
    /\ pc = "partition"
    /\ chunks' = Partition(frames)
    /\ partitions' = partitions + 1
    /\ pc' = "dispatch"
    /\ UNCHANGED <<inputVars, video_b64, tmpDirs, probeRuns, extractRuns, frames,
                   dispatchVars, all_mask_pngs, video_segments, maskFiles,
                   encodeRuns, encodeFailed, modelVars, response, raised>>
    /\ UNCHANGED workerVars

\* modal: all_mask_pngs = self.segment_chunk.local(chunks[0], width, height)
DispatchLocal ==
    /\ pc = "dispatch"
    /\ IsSingleChunk(chunks)
    /\ localCalls' = localCalls + 1
    /\ invocations' = [i \in 1..Len(chunks) |-> IF i = 1 THEN 1 ELSE 0]
    /\ \/ /\ workerFailures' = {1}
          /\ Raise("InferenceError", 0)
          /\ UNCHANGED all_mask_pngs
       \/ /\ \E y \in YieldStreams(Len(chunks[1])) :
                all_mask_pngs' = segment_chunk(chunks[1], y)
          /\ pc' = "write_masks"
          /\ UNCHANGED <<workerFailures, response, raised>>
    /\ UNCHANGED <<inputVars, video_b64, tmpDirs, probeRuns, extractRuns, frames,
                   chunks, partitions, status, outputs, mapOrder, outOfOrder,
                   mapCalls, video_segments, maskFiles, encodeRuns, encodeFailed, modelVars>>
    /\ UNCHANGED workerVars

\* modal: self.segment_chunk.map(chunks, kwargs=...) submits every chunk
DispatchMap ==
    /\ pc = "dispatch"
    /\ ~IsSingleChunk(chunks)
    /\ mapCalls' = mapCalls + 1
    /\ invocations' = [i \in 1..Len(chunks) |-> 1]
    /\ status' = [i \in 1..Len(chunks) |-> "pending"]
    /\ outputs' = [i \in 1..Len(chunks) |-> <<>>]
    /\ pc' = "map"
    /\ UNCHANGED <<inputVars, video_b64, tmpDirs, probeRuns, extractRuns, frames,
                   chunks, partitions, mapOrder, outOfOrder, workerFailures,
                   localCalls, all_mask_pngs, video_segments, maskFiles, encodeRuns,
                   encodeFailed, modelVars, response, raised>>
    /\ UNCHANGED workerVars

\* a pooled segment_chunk invocation returns its masks, or raises
WorkerFinish(i) ==
    /\ pc = "map"
    /\ i \in DOMAIN status /\ status[i] = "pending"
    /\ outOfOrder' = (outOfOrder \/ \E j \in 1..(i - 1) : status[j] = "pending")
    /\ \/ /\ status' = [status EXCEPT ![i] = "failed"]
          /\ workerFailures' = workerFailures \cup {i}
          /\ UNCHANGED outputs
       \/ /\ \E y \in YieldStreams(Len(chunks[i])) :
                outputs' = [outputs EXCEPT ![i] = segment_chunk(chunks[i], y)]
          /\ status' = [status EXCEPT ![i] = "done"]
          /\ UNCHANGED workerFailures
    /\ UNCHANGED <<inputVars, pc, video_b64, tmpDirs, probeRuns, extractRuns,
                   frames, chunks, partitions, invocations, mapOrder, localCalls,
                   mapCalls, all_mask_pngs, video_segments, maskFiles, encodeRuns,
                   encodeFailed, modelVars, response, raised>>
    /\ UNCHANGED workerVars

\* list(...) takes the next output from .map(); a failed input raises there
MapNext ==
    /\ pc = "map"
    /\ \E i \in MapReady(status, mapOrder) :
          IF status[i] = "failed"
          THEN Raise("InferenceError", 0) /\ UNCHANGED mapOrder
          ELSE mapOrder' = Append(mapOrder, i) /\ UNCHANGED <<pc, response, raised>>
    /\ UNCHANGED <<inputVars, video_b64, tmpDirs, probeRuns, extractRuns, frames,
                   chunks, partitions, invocations, status, outputs, outOfOrder,
                   workerFailures, localCalls, mapCalls, all_mask_pngs,
                   video_segments, maskFiles, encodeRuns, encodeFailed, modelVars>>
    /\ UNCHANGED workerVars

\* modal: chunk_results is complete; flatten it
FlattenResults ==
    /\ pc = "map"
    /\ Len(mapOrder) = Len(chunks)
    /\ all_mask_pngs' = Flatten([k \in 1..Len(mapOrder) |-> outputs[mapOrder[k]]])
    /\ pc' = "write_masks"
    /\ UNCHANGED <<inputVars, video_b64, tmpDirs, probeRuns, extractRuns, frames,
                   chunks, partitions, dispatchVars, video_segments, maskFiles,
                   encodeRuns, encodeFailed, modelVars, response, raised>>
    /\ UNCHANGED workerVars

\* modal: write masks/%05d.png for i, png_bytes in enumerate(all_mask_pngs)
WriteMasks ==
    /\ pc = "write_masks"
    /\ maskFiles' = all_mask_pngs
    /\ pc' = "encode"
    /\ UNCHANGED <<inputVars, video_b64, tmpDirs, probeRuns, extractRuns, frames,
                   chunks, partitions, dispatchVars, all_mask_pngs, video_segments,
                   encodeRuns, encodeFailed, modelVars, response, raised>>
    /\ UNCHANGED workerVars

\* modal: run the encoder; raise RuntimeError on a non-zero exit, else respond
ModalEncode ==
    /\ pc = "encode" /\ variant = "modal"
    /\ encodeRuns' = encodeRuns + 1
    /\ \/ /\ encodeFailed' = TRUE
          /\ \E len \in StderrLens : Raise("RuntimeError", Tail500(len))
       \/ /\ encodeFailed' = FALSE
          /\ Return(OkResponseModal)
    /\ UNCHANGED <<inputVars, video_b64, tmpDirs, probeRuns, extractRuns, frames,
                   chunks, partitions, dispatchVars, all_mask_pngs, video_segments,
                   maskFiles, modelVars>>
    /\ UNCHANGED workerVars

\* runpod: subprocess.run([... ffmpeg ...], check=True), list frames
RunpodExtract ==
    /\ pc = "extract" /\ variant = "runpod"
    /\ extractRuns' = extractRuns + 1
    /\ \/ /\ container # "video"
          /\ Raise("CalledProcessError", 0)
          /\ UNCHANGED frames
       \/ /\ container # "corrupt"
          /\ frames' = [i \in 1..srcFrames |-> i]
          /\ IF srcFrames = 0
             THEN Return(ErrorResponse("No frames extracted from video", 0))
             ELSE pc' = "load" /\ UNCHANGED <<response, raised>>
    /\ UNCHANGED <<inputVars, video_b64, tmpDirs, probeRuns, chunks, partitions,
                   dispatchVars, all_mask_pngs, video_segments, maskFiles,
                   encodeRuns, encodeFailed, modelVars>>
    /\ UNCHANGED workerVars

\* runpod: load the predictor unless builtins already holds one
RunpodLoad ==
    /\ pc = "load"
    /\ predictorCached' = TRUE
    /\ modelLoads' = IF predictorCached THEN modelLoads ELSE modelLoads + 1
    /\ pc' = "infer"
    /\ UNCHANGED <<inputVars, video_b64, tmpDirs, probeRuns, extractRuns, frames,
                   chunks, partitions, dispatchVars, all_mask_pngs, video_segments,
                   maskFiles, encodeRuns, encodeFailed, response, raised>>
    /\ UNCHANGED workerVars

\* runpod: init_state, add the point, propagate over the whole video
RunpodInfer ==
    /\ pc = "infer"
    /\ invocations' = <<1>>
    /\ \/ /\ workerFailures' = {1}
          /\ Raise("InferenceError", 0)
          /\ UNCHANGED video_segments
       \/ /\ \E y \in YieldStreams(Len(frames)) :
                video_segments' = Propagate(NoSegments, y, frames)
          /\ pc' = "render"
          /\ UNCHANGED <<workerFailures, response, raised>>
    /\ UNCHANGED <<inputVars, video_b64, tmpDirs, probeRuns, extractRuns, frames,
                   chunks, partitions, status, outputs, mapOrder, outOfOrder,
                   localCalls, mapCalls, all_mask_pngs, maskFiles, encodeRuns, encodeFailed,
                   modelVars>>
    /\ UNCHANGED workerVars

\* runpod: render one mask file per frame
RunpodRender ==
    /\ pc = "render"
    /\ maskFiles' = RenderMasks(Len(frames), video_segments)
    /\ pc' = "encode"
    /\ UNCHANGED <<inputVars, video_b64, tmpDirs, probeRuns, extractRuns, frames,
                   chunks, partitions, dispatchVars, all_mask_pngs, video_segments,
                   encodeRuns, encodeFailed, modelVars, response, raised>>
    /\ UNCHANGED workerVars

\* runpod: probe the fps, run the encoder; return an error on a non-zero exit
RunpodEncode ==
    /\ pc = "encode" /\ variant = "runpod"
    /\ probeRuns' = probeRuns + 1
    /\ encodeRuns' = encodeRuns + 1
    /\ \/ /\ encodeFailed' = TRUE
          /\ \E len \in StderrLens :
                Return(ErrorResponse("ffmpeg encode failed", Tail500(len)))
       \/ /\ encodeFailed' = FALSE
          /\ Return(OkResponseRunpod)
    /\ UNCHANGED <<inputVars, video_b64, tmpDirs, extractRuns, frames, chunks,
                   partitions, dispatchVars, all_mask_pngs, video_segments,
                   maskFiles, modelVars>>
    /\ UNCHANGED workerVars

Next ==
    \/ Recv
    \/ Decode
    \/ Probe
    \/ ModalExtract
    \/ PartitionFrames
    \/ DispatchLocal
    \/ DispatchMap
    \/ \E i \in DOMAIN status : WorkerFinish(i)
    \/ MapNext
    \/ FlattenResults
    \/ WriteMasks
    \/ ModalEncode
    \/ RunpodExtract
    \/ RunpodLoad
    \/ RunpodInfer
    \/ RunpodRender
    \/ RunpodEncode

Spec == Init /\ [][Next]_vars

\* ------------------------------------------------- the worker on its own
\* frame_jpegs of a chunk that starts after `base` frames
ChunkInputs ==
    {[j \in 1..n |-> base + j] : n \in 1..MaxChunkLen, base \in {0, MaxChunkLen}}

\* tracker streams: any sequence of local frame indices, repeats included
StreamsUpTo(n) ==
    UNION {[1..k -> 0..(n - 1)] : k \in 0..MaxYields}

WorkerInit ==
    /\ RequestIdle
    /\ w_pc = "propagate"
    /\ w_frames \in ChunkInputs
    /\ w_stream \in StreamsUpTo(Len(w_frames))
    /\ w_todo = w_stream
    /\ w_segments = NoSegments
    /\ w_out = <<>>

\* one turn of `for out_frame_idx, ... in propagate_in_video(...)`
WorkerYield ==
    /\ w_pc = "propagate"
    /\ w_todo # <<>>
    /\ w_segments' = RecordYield(w_segments, Head(w_todo), w_frames)
    /\ w_todo' = Tail(w_todo)
    /\ UNCHANGED <<w_pc, w_frames, w_stream, w_out>>
    /\ UNCHANGED reqVars

\* the render loop and the return
WorkerRender ==
    /\ w_pc = "propagate"
    /\ w_todo = <<>>
    /\ w_out' = RenderMasks(Len(w_frames), w_segments)
    /\ w_pc' = "returned"
    /\ UNCHANGED <<w_frames, w_stream, w_todo, w_segments>>
    /\ UNCHANGED reqVars

WorkerNext == WorkerYield \/ WorkerRender

SpecWorker == WorkerInit /\ [][WorkerNext]_vars

\* ------------------------------------------------------------- properties
Ended == pc \in {"done", "raised"}
HandedToAssembler == pc = "encode" \/ encodeRuns > 0
InFlight == {i \in DOMAIN status : status[i] = "pending"}

RECURSIVE LenBefore(_, _)
LenBefore(cs, i) == IF i <= 1 THEN 0 ELSE Len(cs[i - 1]) + LenBefore(cs, i - 1)

\* C1: whatever the order in which the pooled invocations finish, the mask
\* sequence handed to the encoder has one entry per extracted frame, and
\* entry i is the mask of frame i (tracked from it, or black when the tracker
\* yielded none for it).
C1_OrderPreserved ==
    HandedToAssembler =>
        /\ Len(maskFiles) = srcFrames
        /\ Len(frames) = srcFrames
        /\ \A i \in 1..Len(maskFiles) : maskFiles[i] \in {frames[i], BLACK}

C1_Witness ==
    /\ variant = "modal"
    /\ HandedToAssembler
    /\ outOfOrder
    /\ Len(chunks) >= 3
    /\ maskFiles = frames

\* C2 as stated: the Partitioner produces exactly min(K, N) chunks, each of
\* size ceil(N / min(K, N)) except a possibly shorter last one.
C2_ExactlyMinChunks ==
    partitions > 0 =>
        LET n == Len(frames)
            m == IF n < MAX_PARALLEL_CHUNKS THEN n ELSE MAX_PARALLEL_CHUNKS
            S == CHOOSE x \in 1..n : x * m >= n /\ (x - 1) * m < n
        IN  /\ Len(chunks) = m
            /\ \A i \in 1..(Len(chunks) - 1) : Len(chunks[i]) = S
            /\ Len(chunks[Len(chunks)]) <= S
            /\ "chunks" \in response.keys => response.chunks = m

\* C2 amended: with S the least size with S * min(K, N) >= N, the Partitioner
\* produces ceil(N / S) chunks, which is at most min(K, N); every chunk but
\* the last has S frames, the last has between 1 and S; the response reports
\* that number as `chunks`.
C2_ChunkCount ==
    partitions > 0 =>
        LET n == Len(frames)
            m == IF n < MAX_PARALLEL_CHUNKS THEN n ELSE MAX_PARALLEL_CHUNKS
            S == CHOOSE x \in 1..n : x * m >= n /\ (x - 1) * m < n
            c == Len(chunks)
        IN  /\ c >= 1
            /\ c <= m
            /\ c * S >= n
            /\ (c - 1) * S < n
            /\ \A i \in 1..(c - 1) : Len(chunks[i]) = S
            /\ Len(chunks[c]) >= 1
            /\ Len(chunks[c]) <= S
            /\ "chunks" \in response.keys => response.chunks = c

C2_Witness ==
    /\ partitions > 0
    /\ Len(frames) > MAX_PARALLEL_CHUNKS
    /\ Len(chunks) < MAX_PARALLEL_CHUNKS
    /\ pc = "done"
    /\ "chunks" \in response.keys
    /\ response.chunks = Len(chunks)

\* C3: the chunks are non-empty contiguous ranges of the frame sequence, each
\* starting where the one before it ends, and concatenated in list order they
\* give back the frame sequence.
C3_PartitionInvariant ==
    partitions > 0 =>
        /\ Flatten(chunks) = frames
        /\ \A i \in 1..Len(chunks) :
              /\ chunks[i] # <<>>
              /\ chunks[i] = SubSeq(frames, LenBefore(chunks, i) + 1,
                                    LenBefore(chunks, i) + Len(chunks[i]))

C3_Witness ==
    /\ partitions > 0
    /\ Len(chunks) >= 2
    /\ Len(chunks[Len(chunks)]) < Len(chunks[1])

\* C4: a partition of one chunk is served by one in-process call and never by
\* the pool; a partition of several chunks is served by the pool only.
C4_SingleChunkShortcut ==
    partitions > 0 =>
        /\ Len(chunks) = 1 =>
              /\ mapCalls = 0
              /\ status = <<>>
              /\ pc # "dispatch" => localCalls = 1
        /\ Len(chunks) > 1 =>
              /\ localCalls = 0
              /\ pc # "dispatch" => mapCalls = 1 /\ Len(status) = Len(chunks)

C4_Witness ==
    /\ Len(chunks) = 1
    /\ localCalls = 1
    /\ mapCalls = 0
    /\ pc = "done"
    /\ "mask_video_base64" \in response.keys

\* C5: in both variants a non-zero exit of the encoder ends the request with a
\* returned response that has an `error` entry with the tail of the encoder's
\* output and no `mask_video_base64` entry; nothing is raised.
C5_EncodeFailureReported ==
    encodeFailed =>
        /\ pc = "done"
        /\ raised = NotRaised
        /\ "error" \in response.keys
        /\ "mask_video_base64" \notin response.keys

\* C6: in both variants a request without a video_base64 entry, or with an
\* empty one, is answered at once with an error, and nothing else is done for
\* it: no temp directory, no probe, no extraction, no partition, no Worker
\* invocation, no model load, no encode.
C6_EmptyInputRejected ==
    (payload \in {"missing", "empty"} /\ pc # "recv") =>
        /\ pc = "done"
        /\ response.keys = {"error"}
        /\ raised = NotRaised
        /\ tmpDirs = 0
        /\ probeRuns = 0
        /\ extractRuns = 0
        /\ frames = <<>>
        /\ partitions = 0
        /\ invocations = <<>>
        /\ localCalls = 0
        /\ mapCalls = 0
        /\ modelLoads = 0
        /\ maskFiles = <<>>
        /\ encodeRuns = 0

C6_Witness ==
    /\ payload = "missing"
    /\ pc = "done"
    /\ response.error = "No video_base64 provided"
    /\ tmpDirs = 0

\* C7: when the Worker fails on a chunk the request ends with a uniform error
\* response; the encoder never runs, no mask video is returned and no chunk
\* is dispatched twice.
C7_InferenceFailureReported ==
    (workerFailures # {} /\ Ended) =>
        /\ raised = NotRaised
        /\ "error" \in response.keys
        /\ "mask_video_base64" \notin response.keys
        /\ encodeRuns = 0
        /\ \A i \in DOMAIN invocations : invocations[i] <= 1

\* C8: in both variants a container without a video stream, or one that
\* decodes to no frame, ends the request with an error response; no chunk is
\* formed, no Worker invoked, no encode attempted, and extraction runs once.
C8_ExtractionFailureReported ==
    ((container = "novideo" \/ (container = "video" /\ srcFrames = 0)) /\ Ended) =>
        /\ raised = NotRaised
        /\ "error" \in response.keys
        /\ partitions = 0
        /\ invocations = <<>>
        /\ encodeRuns = 0
        /\ extractRuns <= 1

\* C9: for a chunk of L frames the Worker returns L masks; output j is the
\* mask of local frame j when the tracker yielded that index at any point of
\* its stream, and an all-black image when it never did.
C9_WorkerOutputShape ==
    w_pc = "returned" =>
        /\ Len(w_out) = Len(w_frames)
        /\ \A j \in 1..Len(w_frames) :
              IF \E k \in 1..Len(w_stream) : w_stream[k] = j - 1
              THEN w_out[j] = w_frames[j]
              ELSE w_out[j] = BLACK

C9_Witness ==
    /\ w_pc = "returned"
    /\ Len(w_frames) = 3
    /\ w_stream = <<2, 0>>
    /\ w_out = <<w_frames[1], BLACK, w_frames[3]>>
    /\ w_frames[1] # 1

\* C10: the Worker is invoked once per chunk, never more, and at no time are
\* more than MAX_PARALLEL_CHUNKS invocations in flight or chunks submitted.
C10_PoolBound ==
    /\ Cardinality(InFlight) <= MAX_PARALLEL_CHUNKS
    /\ Len(status) <= MAX_PARALLEL_CHUNKS
    /\ Len(chunks) <= MAX_PARALLEL_CHUNKS
    /\ \A i \in DOMAIN invocations : invocations[i] <= 1
    /\ (variant = "modal" /\ localCalls + mapCalls > 0) =>
          invocations = [i \in 1..Len(chunks) |-> 1]

C10_Witness ==
    /\ pc = "map"
    /\ Cardinality(InFlight) = MAX_PARALLEL_CHUNKS
    /\ invocations = [i \in 1..MAX_PARALLEL_CHUNKS |-> 1]

====
